---- MODULE Spec2Model ----
(***************************************************************************)
(* A model of the needle operator library (python/needle/ops.py) and of    *)
(* the SGD epoch of apps/simple_ml.py.                                     *)
(*                                                                         *)
(* Arrays are the dense n-dimensional arrays of the numpy backend          *)
(* (ops.py:12, "import numpy as array_api"): a shape (a sequence of sizes) *)
(* and one integer element per index tuple.  Axes and indices are 0-based  *)
(* as in Python; TLA+ sequences are 1-based, so axis k is position k+1.    *)
(* A raised exception is an array value whose err field names it.          *)
(***************************************************************************)
EXTENDS Integers, Sequences, FiniteSets, TLC

\* ------------------------------------------------------------------ bounds
MaxDim == 4
MaxRank == 2
MaxBatchRank == 1
MaxElems == 12
MaxMatElems == 6
MaxExp == 2
MaxExamples == 4
MaxBatch == 3
MaxChain == 3

\* ------------------------------------------------------- the array backend
RECURSIVE Prod(_)
Prod(s) == IF s = <<>> THEN 1 ELSE Head(s) * Prod(Tail(s))

RECURSIVE Indices(_)
Indices(shape) ==
    IF shape = <<>> THEN {<<>>}
    ELSE {<<i>> \o t : i \in 0..(Head(shape) - 1), t \in Indices(Tail(shape))}

\* position of an index tuple in C (row-major) order
RECURSIVE Linear(_, _)
Linear(shape, idx) ==
    IF shape = <<>> THEN 0
    ELSE Head(idx) * Prod(Tail(shape)) + Linear(Tail(shape), Tail(idx))

NDArray(shape, data) == [shape |-> shape, data |-> data, err |-> ""]

Raise(kind) == [shape |-> <<>>, data |-> <<>>, err |-> kind]

IsArr(a) == a.err = ""

\* a Python number used as an operand: numpy treats it as a 0-d array
Scalar(c) == NDArray(<<>>, [i \in {<<>>} |-> c])

\* Python's index normalisation: a negative index counts from the end
PyIndex(i, n) == IF i < 0 THEN i + n ELSE i

RECURSIVE SumOver(_, _)
SumOver(f, S) ==
    IF S = {} THEN 0
    ELSE LET x == CHOOSE y \in S : TRUE IN f[x] + SumOver(f, S \ {x})

\* numpy's broadcasting rule, shapes aligned at their last axis
Compatible(s1, s2) ==
    \A k \in 1..(IF Len(s1) < Len(s2) THEN Len(s1) ELSE Len(s2)) :
        LET d1 == s1[Len(s1) - k + 1]
            d2 == s2[Len(s2) - k + 1]
        IN d1 = d2 \/ d1 = 1 \/ d2 = 1

BroadcastShape(s1, s2) ==
    LET r == IF Len(s1) < Len(s2) THEN Len(s2) ELSE Len(s1)
        Dim(s, k) == IF k > r - Len(s) THEN s[k - (r - Len(s))] ELSE 1
    IN [k \in 1..r |-> IF Dim(s1, k) = 1 THEN Dim(s2, k) ELSE Dim(s1, k)]

\* the index of the operand entry that position idx of the broadcast reads
Source(shape, idx) ==
    [k \in 1..Len(shape) |->
        IF shape[k] = 1 THEN 0 ELSE idx[k + Len(idx) - Len(shape)]]

\* exact integer quotient; the model's inputs keep every quotient integral
Quotient(x, y) == CHOOSE q \in (-(x * x) - 1)..(x * x + 1) : q * y = x

RECURSIVE IntPow(_, _)
IntPow(x, n) ==
    IF n = 0 THEN 1
    ELSE IF n > 0 THEN x * IntPow(x, n - 1)
    ELSE Quotient(1, IntPow(x, -n))

Plus(x, y) == x + y

Times(x, y) == x * y

Neg(x) == -x

Max0(x) == IF x > 0 THEN x ELSE 0

Positive(x) == IF x > 0 THEN 1 ELSE 0

NonNegative(x) == IF x >= 0 THEN 1 ELSE 0

\* exp and log on the arguments whose result is an integer
ExpInt(x) == CASE x = 0 -> 1

LogInt(x) == CASE x = 1 -> 0

\* the element-wise functions of the backend, by name
Elementwise2(f, u, v) ==
    CASE f = "add" -> Plus(u, v)
      [] f = "multiply" -> Times(u, v)
      [] f = "divide" -> Quotient(u, v)
      [] f = "power" -> IntPow(u, v)

Elementwise1(f, u) ==
    CASE f = "negative" -> Neg(u)
      [] f = "maximum0" -> Max0(u)
      [] f = "positive" -> Positive(u)
      [] f = "nonnegative" -> NonNegative(u)
      [] f = "exp" -> ExpInt(u)
      [] f = "log" -> LogInt(u)

np_ewise(f, a, b) ==
    IF ~IsArr(a) THEN a
    ELSE IF ~IsArr(b) THEN b
    ELSE IF ~Compatible(a.shape, b.shape) THEN Raise("ValueError")
    ELSE LET s == BroadcastShape(a.shape, b.shape)
         IN NDArray(s, [idx \in Indices(s) |->
                Elementwise2(f, a.data[Source(a.shape, idx)], b.data[Source(b.shape, idx)])])

np_map(f, a) ==
    IF ~IsArr(a) THEN a
    ELSE NDArray(a.shape, [idx \in Indices(a.shape) |-> Elementwise1(f, a.data[idx])])

np_ones(shape) == NDArray(shape, [idx \in Indices(shape) |-> 1])

np_broadcast_to(a, shape) ==
    IF ~IsArr(a) THEN a
    ELSE IF Len(a.shape) > Len(shape) \/ ~Compatible(a.shape, shape)
            \/ BroadcastShape(a.shape, shape) # shape
         THEN Raise("ValueError")
    ELSE NDArray(shape, [idx \in Indices(shape) |-> a.data[Source(a.shape, idx)]])

\* axes: None, or a tuple of axis indices: [kind |-> "None" or "tuple", ax |-> tuple]
np_sum(a, axes) ==
    IF ~IsArr(a) THEN a
    ELSE LET r == Len(a.shape)
             ax == IF axes.kind = "None" THEN [k \in 1..r |-> k - 1] ELSE axes.ax
         IN IF \E k \in 1..Len(ax) : ax[k] < -r \/ ax[k] >= r
            THEN Raise("AxisError")
            ELSE LET red == {PyIndex(ax[k], r) : k \in 1..Len(ax)}
                 IN IF Cardinality(red) # Len(ax) THEN Raise("ValueError")
                    ELSE LET keep == SelectSeq([k \in 1..r |-> k - 1],
                                               LAMBDA x : x \notin red)
                             s == [k \in 1..Len(keep) |-> a.shape[keep[k] + 1]]
                             Part(idx) == {j \in Indices(a.shape) :
                                 \A k \in 1..Len(keep) : j[keep[k] + 1] = idx[k]}
                         IN NDArray(s, [idx \in Indices(s) |->
                                SumOver(a.data, Part(idx))])

\* perm: sequence of axis indices, result axis k is operand axis perm[k]
np_transpose(a, perm) ==
    IF ~IsArr(a) THEN a
    ELSE IF {perm[k] : k \in 1..Len(perm)} # 0..(Len(a.shape) - 1)
            \/ Len(perm) # Len(a.shape)
         THEN Raise("ValueError")
    ELSE LET r == Len(a.shape)
             s == [k \in 1..r |-> a.shape[perm[k] + 1]]
             Src(idx) == [j \in 1..r |->
                 idx[CHOOSE k \in 1..r : perm[k] + 1 = j]]
         IN NDArray(s, [idx \in Indices(s) |-> a.data[Src(idx)]])

np_reshape(a, shape) ==
    IF ~IsArr(a) THEN a
    ELSE IF Prod(shape) # Prod(a.shape) THEN Raise("ValueError")
    ELSE NDArray(shape, [idx \in Indices(shape) |->
            a.data[CHOOSE j \in Indices(a.shape) :
                Linear(a.shape, j) = Linear(shape, idx)]])

\* matmul of operands of rank >= 2: the last two axes are the matrices, the
\* leading (batch) axes broadcast
np_matmul(a, b) ==
    IF ~IsArr(a) THEN a
    ELSE IF ~IsArr(b) THEN b
    ELSE LET ra == Len(a.shape)
             rb == Len(b.shape)
             ba == SubSeq(a.shape, 1, ra - 2)
             bb == SubSeq(b.shape, 1, rb - 2)
         IN IF a.shape[ra] # b.shape[rb - 1] \/ ~Compatible(ba, bb)
            THEN Raise("ValueError")
            ELSE LET bs == BroadcastShape(ba, bb)
                     nb == Len(bs)
                     s == bs \o <<a.shape[ra - 1], b.shape[rb]>>
                     K == a.shape[ra]
                     Term(idx) == [k \in 0..(K - 1) |->
                         a.data[Source(ba, SubSeq(idx, 1, nb)) \o <<idx[nb + 1], k>>]
                         * b.data[Source(bb, SubSeq(idx, 1, nb)) \o <<k, idx[nb + 2]>>]]
                 IN NDArray(s, [idx \in Indices(s) |->
                        SumOver(Term(idx), 0..(K - 1))])

\* --------------------------------------------------- operators: compute
NoAxes == [kind |-> "None", ax |-> <<>>]

Op(name, axes, shape, scalar) ==
    [name |-> name, axes |-> axes, shape |-> shape, scalar |-> scalar]

EWiseAdd_compute(self, a, b) == np_ewise("add", a, b)

AddScalar_compute(self, a) == np_ewise("add", a, self.scalar)

EWiseMul_compute(self, a, b) == np_ewise("multiply", a, b)

MulScalar_compute(self, a) == np_ewise("multiply", a, self.scalar)

PowerScalar_compute(self, a) == np_ewise("power", a, self.scalar)

EWiseDiv_compute(self, a, b) == np_ewise("divide", a, b)

DivScalar_compute(self, a) == np_ewise("divide", a, self.scalar)

\* the swap done as two assignments in a row: axes[i] = axes[j]; axes[j] = axes[i]
Transpose_axes_sequential(self, n) ==
    LET axes == [k \in 1..n |-> k - 1]
        i == IF self.axes.kind = "None" THEN n - 1 ELSE PyIndex(self.axes.ax[1], n)
        j == IF self.axes.kind = "None" THEN n - 2 ELSE PyIndex(self.axes.ax[2], n)
        first == [axes EXCEPT ![i + 1] = axes[j + 1]]
    IN [first EXCEPT ![j + 1] = first[i + 1]]

\* axes[i], axes[j] = axes[j], axes[i] on the list range(len(a.shape))
Transpose_axes(self, n) ==
    LET axes == [k \in 1..n |-> k - 1]
        i == IF self.axes.kind = "None" THEN n - 1 ELSE PyIndex(self.axes.ax[1], n)
        j == IF self.axes.kind = "None" THEN n - 2 ELSE PyIndex(self.axes.ax[2], n)
        first == [axes EXCEPT ![i + 1] = axes[j + 1]]
    IN [first EXCEPT ![j + 1] = axes[i + 1]]

Transpose_compute(self, a) ==
    IF ~IsArr(a) THEN a ELSE np_transpose(a, Transpose_axes(self, Len(a.shape)))

Reshape_compute(self, a) == np_reshape(a, self.shape)

BroadcastTo_compute(self, a) == np_broadcast_to(a, self.shape)

\* Summation.__init__: an int axis becomes a one-element tuple
Summation_init(axes) ==
    Op("Summation",
       IF axes.kind = "int" THEN [kind |-> "tuple", ax |-> axes.ax] ELSE axes,
       <<>>, Scalar(0))

Summation_compute(self, a) == np_sum(a, self.axes)

MatMul_compute(self, a, b) == np_matmul(a, b)

Negate_compute(self, a) == np_map("negative", a)

Log_compute(self, a) == np_map("log", a)

Exp_compute(self, a) == np_map("exp", a)

ReLU_compute(self, a) == np_map("maximum0", a)

\* op.compute(*[x.realize_cached_data() for x in inputs])
Compute(op, inputs) ==
    LET a == inputs[1].cached_data
        b == inputs[2].cached_data
    IN CASE op.name = "EWiseAdd" -> EWiseAdd_compute(op, a, b)
         [] op.name = "AddScalar" -> AddScalar_compute(op, a)
         [] op.name = "EWiseMul" -> EWiseMul_compute(op, a, b)
         [] op.name = "MulScalar" -> MulScalar_compute(op, a)
         [] op.name = "PowerScalar" -> PowerScalar_compute(op, a)
         [] op.name = "EWiseDiv" -> EWiseDiv_compute(op, a, b)
         [] op.name = "DivScalar" -> DivScalar_compute(op, a)
         [] op.name = "Transpose" -> Transpose_compute(op, a)
         [] op.name = "Reshape" -> Reshape_compute(op, a)
         [] op.name = "BroadcastTo" -> BroadcastTo_compute(op, a)
         [] op.name = "Summation" -> Summation_compute(op, a)
         [] op.name = "MatMul" -> MatMul_compute(op, a, b)
         [] op.name = "Negate" -> Negate_compute(op, a)
         [] op.name = "Log" -> Log_compute(op, a)
         [] op.name = "Exp" -> Exp_compute(op, a)
         [] op.name = "ReLU" -> ReLU_compute(op, a)

\* ------------------------------------------------------------ tensors
\* a leaf tensor wrapping an array: no operator, no inputs
Tensor(array) ==
    [op |-> Op("Leaf", NoAxes, <<>>, Scalar(0)), inputs |-> <<>>,
     cached_data |-> array]

\* applying an operator to tensors makes a node wired to its inputs, its
\* value computed at once (eager mode)
make_from_op(op, inputs) ==
    [op |-> op, inputs |-> inputs, cached_data |-> Compute(op, inputs)]

TensorShape(t) == t.cached_data.shape

add(a, b) == make_from_op(Op("EWiseAdd", NoAxes, <<>>, Scalar(0)), <<a, b>>)

add_scalar(a, scalar) == make_from_op(Op("AddScalar", NoAxes, <<>>, scalar), <<a>>)

multiply(a, b) == make_from_op(Op("EWiseMul", NoAxes, <<>>, Scalar(0)), <<a, b>>)

mul_scalar(a, scalar) == make_from_op(Op("MulScalar", NoAxes, <<>>, scalar), <<a>>)

power_scalar(a, scalar) == make_from_op(Op("PowerScalar", NoAxes, <<>>, scalar), <<a>>)

divide(a, b) == make_from_op(Op("EWiseDiv", NoAxes, <<>>, Scalar(0)), <<a, b>>)

divide_scalar(a, scalar) == make_from_op(Op("DivScalar", NoAxes, <<>>, scalar), <<a>>)

transpose(a, axes) == make_from_op(Op("Transpose", axes, <<>>, Scalar(0)), <<a>>)

reshape(a, shape) == make_from_op(Op("Reshape", NoAxes, shape, Scalar(0)), <<a>>)

broadcast_to(a, shape) == make_from_op(Op("BroadcastTo", NoAxes, shape, Scalar(0)), <<a>>)

summation(a, axes) == make_from_op(Summation_init(axes), <<a>>)

matmul(a, b) == make_from_op(Op("MatMul", NoAxes, <<>>, Scalar(0)), <<a, b>>)

negate(a) == make_from_op(Op("Negate", NoAxes, <<>>, Scalar(0)), <<a>>)

log(a) == make_from_op(Op("Log", NoAxes, <<>>, Scalar(0)), <<a>>)

exp(a) == make_from_op(Op("Exp", NoAxes, <<>>, Scalar(0)), <<a>>)

relu(a) == make_from_op(Op("ReLU", NoAxes, <<>>, Scalar(0)), <<a>>)

\* Tensor's arithmetic methods build a node with the matching operator:
\* a tensor operand selects the element-wise operator, any other operand
\* (a number, an array) the scalar one
Tensor__mul__(a, other) == multiply(a, other)

Tensor__mul__scalar(a, other) == mul_scalar(a, other)

Tensor__truediv__(a, other) == divide(a, other)

Tensor__truediv__scalar(a, other) == divide_scalar(a, other)

Tensor__neg__(a) == negate(a)

Tensor__pow__(a, other) == power_scalar(a, other)

Tensor__matmul__(a, other) == matmul(a, other)

\* ------------------------------------------------- operators: gradient
\* what a gradient call yields: the gradient tensors, or the exception raised
Return(grads) == [raised |-> "", grads |-> grads]

EWiseAdd_gradient(self, out_grad, node) == Return(<<out_grad, out_grad>>)

AddScalar_gradient(self, out_grad, node) == Return(<<out_grad>>)

EWiseMul_gradient(self, out_grad, node) ==
    LET lhs == node.inputs[1]
        rhs == node.inputs[2]
    IN Return(<<Tensor__mul__(out_grad, rhs), Tensor__mul__(out_grad, lhs)>>)

MulScalar_gradient(self, out_grad, node) ==
    Return(<<Tensor__mul__scalar(out_grad, self.scalar)>>)

PowerScalar_gradient(self, out_grad, node) ==
    [raised |-> "NotImplementedError", grads |-> <<>>]

EWiseDiv_gradient(self, out_grad, node) ==
    LET lhs == node.inputs[1]
        rhs == node.inputs[2]
    IN Return(<<Tensor__truediv__(out_grad, rhs),
                Tensor__mul__(Tensor__mul__(Tensor__neg__(out_grad), lhs),
                              Tensor__pow__(rhs, Scalar(-2)))>>)

DivScalar_gradient(self, out_grad, node) ==
    Return(<<Tensor__truediv__scalar(out_grad, self.scalar)>>)

Transpose_gradient(self, out_grad, node) ==
    Return(<<transpose(out_grad, self.axes)>>)

Reshape_gradient(self, out_grad, node) ==
    LET x == node.inputs[1]
    IN Return(<<reshape(out_grad, TensorShape(x))>>)

\* the loop without its "input_shape_idx < 0" branch: the leading axes are kept
RECURSIVE BroadcastTo_reduce_dim_no_leading(_, _, _, _)
BroadcastTo_reduce_dim_no_leading(output_shape, input_shape, o, i) ==
    IF o < 0 THEN <<>>
    ELSE (IF i < 0 THEN <<>>
          ELSE IF output_shape[o + 1] # input_shape[i + 1] THEN <<o>>
          ELSE <<>>)
         \o BroadcastTo_reduce_dim_no_leading(output_shape, input_shape, o - 1, i - 1)

\* the loop of BroadcastTo.gradient from output axis o and input axis i down
RECURSIVE BroadcastTo_reduce_dim(_, _, _, _)
BroadcastTo_reduce_dim(output_shape, input_shape, o, i) ==
    IF o < 0 THEN <<>>
    ELSE (IF i < 0 THEN <<o>>
          ELSE IF output_shape[o + 1] # input_shape[i + 1] THEN <<o>>
          ELSE <<>>)
         \o BroadcastTo_reduce_dim(output_shape, input_shape, o - 1, i - 1)

BroadcastTo_gradient(self, out_grad, node) ==
    LET x == node.inputs[1]
        output_shape == TensorShape(out_grad)
        input_shape == TensorShape(x)
        reduce_dim == BroadcastTo_reduce_dim(output_shape, input_shape,
                          Len(output_shape) - 1, Len(input_shape) - 1)
    IN Return(<<reshape(summation(out_grad, [kind |-> "tuple", ax |-> reduce_dim]),
                        input_shape)>>)

\* "if self.axes": None and the empty tuple are both false
Truthy(axes) == axes.kind # "None" /\ axes.ax # <<>>

Summation_sum_shape(self, input_shape) ==
    IF Truthy(self.axes)
    THEN [k \in 1..Len(input_shape) |->
            IF \E d \in 1..Len(self.axes.ax) :
                   PyIndex(self.axes.ax[d], Len(input_shape)) = k - 1
            THEN 1 ELSE input_shape[k]]
    ELSE [k \in 1..Len(input_shape) |-> 1]

Summation_gradient(self, out_grad, node) ==
    LET x == node.inputs[1]
        input_shape == TensorShape(x)
        sum_shape == Summation_sum_shape(self, input_shape)
        reshaped == reshape(out_grad, sum_shape)
    IN Return(<<Tensor__mul__scalar(reshaped, np_ones(input_shape))>>)

\* tuple(range(n))
RangeTuple(n) == [kind |-> "tuple", ax |-> [k \in 1..(IF n > 0 THEN n ELSE 0) |-> k - 1]]

MatMul_gradient(self, out_grad, node) ==
    LET x == node.inputs[1]
        y == node.inputs[2]
        dx0 == Tensor__matmul__(out_grad, transpose(y, NoAxes))
        dy0 == Tensor__matmul__(transpose(x, NoAxes), out_grad)
        dx == IF TensorShape(dx0) # TensorShape(x)
              THEN summation(dx0, RangeTuple(Len(TensorShape(dx0)) - Len(TensorShape(x))))
              ELSE dx0
        dy == IF TensorShape(dy0) # TensorShape(y)
              THEN summation(dy0, RangeTuple(Len(TensorShape(dy0)) - Len(TensorShape(y))))
              ELSE dy0
    IN Return(<<dx, dy>>)

Negate_gradient(self, out_grad, node) == Return(<<Tensor__neg__(out_grad)>>)

Log_gradient(self, out_grad, node) ==
    LET x == node.inputs[1]
    IN Return(<<Tensor__truediv__(out_grad, x)>>)

Exp_gradient(self, out_grad, node) ==
    LET x == node.inputs[1]
    IN Return(<<Tensor__mul__(out_grad, exp(x))>>)

\* the mask taken with >= in place of >
ReLU_mask_ge(x) == np_map("nonnegative", x.cached_data)

\* (cached_data > 0).astype(float32) of the operand
ReLU_mask(x) == np_map("positive", x.cached_data)

ReLU_gradient(self, out_grad, node) ==
    LET x == node.inputs[1]
    IN Return(<<Tensor__mul__(out_grad, Tensor(ReLU_mask(x)))>>)

\* node.op.gradient(out_grad, node)
Gradient(out_grad, node) ==
    LET op == node.op
    IN CASE op.name = "EWiseAdd" -> EWiseAdd_gradient(op, out_grad, node)
         [] op.name = "AddScalar" -> AddScalar_gradient(op, out_grad, node)
         [] op.name = "EWiseMul" -> EWiseMul_gradient(op, out_grad, node)
         [] op.name = "MulScalar" -> MulScalar_gradient(op, out_grad, node)
         [] op.name = "PowerScalar" -> PowerScalar_gradient(op, out_grad, node)
         [] op.name = "EWiseDiv" -> EWiseDiv_gradient(op, out_grad, node)
         [] op.name = "DivScalar" -> DivScalar_gradient(op, out_grad, node)
         [] op.name = "Transpose" -> Transpose_gradient(op, out_grad, node)
         [] op.name = "Reshape" -> Reshape_gradient(op, out_grad, node)
         [] op.name = "BroadcastTo" -> BroadcastTo_gradient(op, out_grad, node)
         [] op.name = "Summation" -> Summation_gradient(op, out_grad, node)
         [] op.name = "MatMul" -> MatMul_gradient(op, out_grad, node)
         [] op.name = "Negate" -> Negate_gradient(op, out_grad, node)
         [] op.name = "Log" -> Log_gradient(op, out_grad, node)
         [] op.name = "Exp" -> Exp_gradient(op, out_grad, node)
         [] op.name = "ReLU" -> ReLU_gradient(op, out_grad, node)

\* ------------------------------------------------ the calls considered
ShapesOfRank(lo, hi, elems) ==
    {s \in UNION {[1..r -> 1..MaxDim] : r \in lo..hi} : Prod(s) <= elems}

Shapes == ShapesOfRank(0, MaxRank, MaxElems)

\* shapes of matrices with up to MaxBatchRank leading batch axes
MatShapes == ShapesOfRank(2, 2 + MaxBatchRank, MaxMatElems)

Patterns == {"ones", "zeros", "iota", "sign", "tri0", "tri1", "tri2"}

\* the arrays used as operands and as incoming gradients: element values
\* laid out by position in row-major order
Fill(p, shape) ==
    NDArray(shape, [idx \in Indices(shape) |->
        LET n == Linear(shape, idx)
        IN CASE p = "ones" -> 1
             [] p = "zeros" -> 0
             [] p = "iota" -> n + 1
             [] p = "sign" -> IF n % 2 = 0 THEN 1 ELSE -1
             [] p = "tri0" -> (n % 3) - 1
             [] p = "tri1" -> ((n + 1) % 3) - 1
             [] p = "tri2" -> ((n + 2) % 3) - 1])

Call(op, inputs, og) == [op |-> op, inputs |-> inputs, og |-> og]

PlainOp(name) == Op(name, NoAxes, <<>>, Scalar(0))

\* the calls of each operator: c is one of them
BinaryCall(c, name, pb) ==
    \E A, B \in Shapes :
        /\ Compatible(A, B)
        /\ c = Call(PlainOp(name), <<Fill("iota", A), Fill(pb, B)>>, "iota")

ScalarCall(c, name, px, cs) ==
    \E S \in Shapes, k \in cs :
        c = Call(Op(name, NoAxes, <<>>, Scalar(k)), <<Fill(px, S)>>, "iota")

UnaryCall(c, name, ps, ogs) ==
    \E S \in Shapes, p \in ps, og \in ogs :
        c = Call(PlainOp(name), <<Fill(p, S)>>, og)

\* the axes arguments of Transpose: None, or a pair of indices
TransposeAxes(r) ==
    {NoAxes} \cup {[kind |-> "tuple", ax |-> <<i, j>>] : i, j \in (-r)..(r - 1)}

TransposeCall(c) ==
    \E S \in MatShapes : \E axes \in TransposeAxes(Len(S)) :
        c = Call(Op("Transpose", axes, <<>>, Scalar(0)), <<Fill("iota", S)>>, "iota")

ReshapeCall(c) ==
    \E S, T \in Shapes :
        /\ Prod(S) = Prod(T)
        /\ c = Call(Op("Reshape", NoAxes, T, Scalar(0)), <<Fill("iota", S)>>, "iota")

\* S broadcasts to T
BroadcastsTo(S, T) ==
    Len(S) <= Len(T) /\ Compatible(S, T) /\ BroadcastShape(S, T) = T

BroadcastToCall(c) ==
    \E S, T \in Shapes, og \in {"ones", "iota"} :
        /\ BroadcastsTo(S, T)
        /\ c = Call(Op("BroadcastTo", NoAxes, T, Scalar(0)), <<Fill("iota", S)>>, og)

\* tuples naming distinct axes in increasing order, each axis by its
\* non-negative or its negative index
AxesTuples(r) ==
    {SelectSeq([k \in 1..r |-> IF f[k] = "neg" THEN k - 1 - r ELSE k - 1],
               LAMBDA a : f[PyIndex(a, r) + 1] # "out") :
        f \in [1..r -> {"out", "pos", "neg"}]}

\* the axes arguments of Summation: None, a single int, a tuple
SummationAxes(r) ==
    {NoAxes}
    \cup {[kind |-> "int", ax |-> <<i>>] : i \in (-r)..(r - 1)}
    \cup {[kind |-> "tuple", ax |-> t] : t \in AxesTuples(r)}

SummationCall(c) ==
    \E S \in Shapes : \E axes \in SummationAxes(Len(S)) :
        c = Call(Summation_init(axes), <<Fill("iota", S)>>, "iota")

MatMulCall(c) ==
    \E A, B \in MatShapes :
        /\ A[Len(A)] = B[Len(B) - 1]
        /\ Compatible(SubSeq(A, 1, Len(A) - 2), SubSeq(B, 1, Len(B) - 2))
        /\ c = Call(PlainOp("MatMul"), <<Fill("iota", A), Fill("sign", B)>>, "iota")

IsCall(c) ==
    \/ BinaryCall(c, "EWiseAdd", "tri0")
    \/ BinaryCall(c, "EWiseMul", "tri0")
    \/ BinaryCall(c, "EWiseDiv", "sign")
    \/ ScalarCall(c, "AddScalar", "iota", {2})
    \/ ScalarCall(c, "MulScalar", "iota", {2})
    \/ ScalarCall(c, "DivScalar", "iota", {-1})
    \/ ScalarCall(c, "PowerScalar", "sign", (-MaxExp)..MaxExp)
    \/ TransposeCall(c)
    \/ ReshapeCall(c)
    \/ BroadcastToCall(c)
    \/ SummationCall(c)
    \/ MatMulCall(c)
    \/ UnaryCall(c, "Negate", {"iota"}, {"iota"})
    \/ UnaryCall(c, "Log", {"ones"}, {"iota"})
    \/ UnaryCall(c, "Exp", {"zeros"}, {"iota"})
    \/ UnaryCall(c, "ReLU", {"tri0", "tri1", "tri2"}, {"ones", "iota"})

\* ------------------------------------------------------------- state
\* pc: the position of the run; call, result: an operator call and its outcome;
\* chain: the operators differentiated so far, the last one being call's;
\* the rest: the arguments, the locals and the tensors of an nn_epoch run
VARIABLES pc, call, result, chain,
          x, y, batch, heap, w1, w2, i, x_batch, y_batch, loss, steps, ret

opvars == <<call, result, chain>>

epvars == <<x, y, batch, heap, w1, w2, i, x_batch, y_batch, loss, steps, ret>>

vars == <<pc, opvars, epvars>>

\* no nn_epoch run
NoEpoch ==
    /\ x = <<>> /\ y = <<>> /\ batch = 1 /\ heap = <<>> /\ w1 = 0 /\ w2 = 0
    /\ i = 0 /\ x_batch = <<>> /\ y_batch = <<>> /\ loss = 0 /\ steps = <<>>
    /\ ret = <<>>

NoCall == Call(PlainOp("Leaf"), <<>>, "ones")

NoResult == [out |-> Scalar(0), raised |-> "", grads |-> <<>>]

\* the node a call builds from leaf tensors, and the gradient flowing into it
CallNode(c) ==
    make_from_op(c.op, [k \in 1..Len(c.inputs) |-> Tensor(c.inputs[k])])

CallOutGrad(c) == Tensor(Fill(c.og, TensorShape(CallNode(c))))

\* the outcome of a gradient call: an exception raised by the rule itself or
\* by one of the operator applications it makes, else the gradients' values
Outcome(out, g) ==
    LET bad == {k \in 1..Len(g.grads) : ~IsArr(g.grads[k].cached_data)}
    IN IF g.raised # "" THEN [out |-> out, raised |-> g.raised, grads |-> <<>>]
       ELSE IF bad # {}
       THEN [out |-> out,
             raised |-> g.grads[CHOOSE k \in bad : \A j \in bad : k <= j].cached_data.err,
             grads |-> <<>>]
       ELSE [out |-> out, raised |-> "",
             grads |-> [k \in 1..Len(g.grads) |-> g.grads[k].cached_data]]

InitOps ==
    /\ pc = "call"
    /\ IsCall(call)
    /\ result = NoResult
    /\ chain = <<>>
    /\ NoEpoch

\* the forward value of the called operator and the outcome of its gradient
\* rule on an incoming gradient of the output's shape
Applied(c, g) == Outcome(CallNode(c).cached_data, g)

EWiseAdd_apply ==
    /\ pc = "call"
    /\ call.op.name = "EWiseAdd"
    /\ result' = Applied(call, EWiseAdd_gradient(call.op, CallOutGrad(call), CallNode(call)))
    /\ pc' = "done"
    /\ UNCHANGED <<call, chain, epvars>>

AddScalar_apply ==
    /\ pc = "call"
    /\ call.op.name = "AddScalar"
    /\ result' = Applied(call, AddScalar_gradient(call.op, CallOutGrad(call), CallNode(call)))
    /\ pc' = "done"
    /\ UNCHANGED <<call, chain, epvars>>

EWiseMul_apply ==
    /\ pc = "call"
    /\ call.op.name = "EWiseMul"
    /\ result' = Applied(call, EWiseMul_gradient(call.op, CallOutGrad(call), CallNode(call)))
    /\ pc' = "done"
    /\ UNCHANGED <<call, chain, epvars>>

MulScalar_apply ==
    /\ pc = "call"
    /\ call.op.name = "MulScalar"
    /\ result' = Applied(call, MulScalar_gradient(call.op, CallOutGrad(call), CallNode(call)))
    /\ pc' = "done"
    /\ UNCHANGED <<call, chain, epvars>>

PowerScalar_apply ==
    /\ pc = "call"
    /\ call.op.name = "PowerScalar"
    /\ result' = Applied(call, PowerScalar_gradient(call.op, CallOutGrad(call), CallNode(call)))
    /\ pc' = "done"
    /\ UNCHANGED <<call, chain, epvars>>

EWiseDiv_apply ==
    /\ pc = "call"
    /\ call.op.name = "EWiseDiv"
    /\ result' = Applied(call, EWiseDiv_gradient(call.op, CallOutGrad(call), CallNode(call)))
    /\ pc' = "done"
    /\ UNCHANGED <<call, chain, epvars>>

DivScalar_apply ==
    /\ pc = "call"
    /\ call.op.name = "DivScalar"
    /\ result' = Applied(call, DivScalar_gradient(call.op, CallOutGrad(call), CallNode(call)))
    /\ pc' = "done"
    /\ UNCHANGED <<call, chain, epvars>>

Transpose_apply ==
    /\ pc = "call"
    /\ call.op.name = "Transpose"
    /\ result' = Applied(call, Transpose_gradient(call.op, CallOutGrad(call), CallNode(call)))
    /\ pc' = "done"
    /\ UNCHANGED <<call, chain, epvars>>

Reshape_apply ==
    /\ pc = "call"
    /\ call.op.name = "Reshape"
    /\ result' = Applied(call, Reshape_gradient(call.op, CallOutGrad(call), CallNode(call)))
    /\ pc' = "done"
    /\ UNCHANGED <<call, chain, epvars>>

BroadcastTo_apply ==
    /\ pc = "call"
    /\ call.op.name = "BroadcastTo"
    /\ result' = Applied(call, BroadcastTo_gradient(call.op, CallOutGrad(call), CallNode(call)))
    /\ pc' = "done"
    /\ UNCHANGED <<call, chain, epvars>>

Summation_apply ==
    /\ pc = "call"
    /\ call.op.name = "Summation"
    /\ result' = Applied(call, Summation_gradient(call.op, CallOutGrad(call), CallNode(call)))
    /\ pc' = "done"
    /\ UNCHANGED <<call, chain, epvars>>

MatMul_apply ==
    /\ pc = "call"
    /\ call.op.name = "MatMul"
    /\ result' = Applied(call, MatMul_gradient(call.op, CallOutGrad(call), CallNode(call)))
    /\ pc' = "done"
    /\ UNCHANGED <<call, chain, epvars>>

Negate_apply ==
    /\ pc = "call"
    /\ call.op.name = "Negate"
    /\ result' = Applied(call, Negate_gradient(call.op, CallOutGrad(call), CallNode(call)))
    /\ pc' = "done"
    /\ UNCHANGED <<call, chain, epvars>>

Log_apply ==
    /\ pc = "call"
    /\ call.op.name = "Log"
    /\ result' = Applied(call, Log_gradient(call.op, CallOutGrad(call), CallNode(call)))
    /\ pc' = "done"
    /\ UNCHANGED <<call, chain, epvars>>

Exp_apply ==
    /\ pc = "call"
    /\ call.op.name = "Exp"
    /\ result' = Applied(call, Exp_gradient(call.op, CallOutGrad(call), CallNode(call)))
    /\ pc' = "done"
    /\ UNCHANGED <<call, chain, epvars>>

ReLU_apply ==
    /\ pc = "call"
    /\ call.op.name = "ReLU"
    /\ result' = Applied(call, ReLU_gradient(call.op, CallOutGrad(call), CallNode(call)))
    /\ pc' = "done"
    /\ UNCHANGED <<call, chain, epvars>>

NextOps ==
    \/ EWiseAdd_apply
    \/ AddScalar_apply
    \/ EWiseMul_apply
    \/ MulScalar_apply
    \/ PowerScalar_apply
    \/ EWiseDiv_apply
    \/ DivScalar_apply
    \/ Transpose_apply
    \/ Reshape_apply
    \/ BroadcastTo_apply
    \/ Summation_apply
    \/ MatMul_apply
    \/ Negate_apply
    \/ Log_apply
    \/ Exp_apply
    \/ ReLU_apply

SpecOps == InitOps /\ [][NextOps]_vars

\* ------------------------------------------- gradients of gradients
\* the operator applications a gradient expression is made of: every node of
\* the graph below t that is not a leaf
RECURSIVE Applications(_)
Applications(t) ==
    IF t.op.name = "Leaf" THEN {}
    ELSE {t} \cup UNION {Applications(t.inputs[k]) : k \in 1..Len(t.inputs)}

\* the call that made node t: its operator on the values of its inputs
CallOf(t) ==
    Call(t.op, [k \in 1..Len(t.inputs) |-> t.inputs[k].cached_data], "iota")

HasGradientRule(c) ==
    Gradient(CallOutGrad(c), CallNode(c)).raised # "NotImplementedError"

InitGrad ==
    /\ pc = "start"
    /\ IsCall(call)
    /\ result = NoResult
    /\ chain = <<>>
    /\ NoEpoch

\* start from a call of an operator that has a gradient rule
Start ==
    /\ pc = "start"
    /\ HasGradientRule(call)
    /\ chain' = <<call.op.name>>
    /\ pc' = "grad"
    /\ UNCHANGED <<call, result, epvars>>

\* take the gradient of the current call and go on with one of the operator
\* applications its gradient expression is made of
Differentiate ==
    /\ pc = "grad"
    /\ Len(chain) < MaxChain
    /\ LET node == CallNode(call)
           g == Gradient(CallOutGrad(call), node)
       IN /\ Applied(call, g).raised = ""
          /\ \E k \in 1..Len(g.grads) : \E t \in Applications(g.grads[k]) :
                 /\ call' = CallOf(t)
                 /\ chain' = Append(chain, t.op.name)
    /\ UNCHANGED <<pc, result, epvars>>

NextGrad == Start \/ Differentiate

SpecGrad == InitGrad /\ [][NextGrad]_vars

\* ------------------------------------------------------------ nn_epoch
\* The arrays of an epoch are kept as terms that record how they were
\* computed.  Tensors are objects of the heap, named by their position in it:
\* their operator ("" for a leaf), their inputs, their array, and their grad
\* (<<>> while there is none).
Labels == {0, 1}

InitialWeight(name) == [init |-> name]

\* the array of the loss node: relu(x_tensor @ w1) @ w2 fed with the one-hot
\* labels to softmax_loss
LossValue(xb, yb, v1, v2) ==
    [loss_x |-> xb, loss_y |-> yb, loss_w1 |-> v1, loss_w2 |-> v2]

\* the gradient of a loss with respect to one of its leaves
GradValue(wrt, lossvalue) == [wrt |-> wrt, of |-> lossvalue]

\* w.numpy() - lr * w.grad.numpy(): a new array
Descent(w, g) == [minuend |-> w, lr |-> "lr", grad |-> g]

\* ndl.Tensor(array): a new leaf
Leaf(array) == [op |-> "", inputs |-> <<>>, data |-> array, grad |-> <<>>]

\* s[lo:hi] for 0 <= lo <= hi
Slice(s, lo, hi) == SubSeq(s, lo + 1, IF hi < Len(s) THEN hi ELSE Len(s))

\* the loop that stops before a batch that is not full
RangeHasFullStep(n, stop, step) == n + step <= stop

\* range(0, stop, step) yields n
RangeHasNext(n, stop, step) == n < stop

InitEpoch ==
    /\ pc = "for"
    /\ call = NoCall /\ result = NoResult /\ chain = <<>>
    /\ \E n \in 0..MaxExamples :
           /\ x = [k \in 1..n |-> k]
           /\ y \in [1..n -> Labels]
    /\ batch \in 1..MaxBatch
    /\ heap = <<Leaf(InitialWeight("w1")), Leaf(InitialWeight("w2"))>>
    /\ w1 = 1 /\ w2 = 2
    /\ i = 0
    /\ x_batch = <<>> /\ y_batch = <<>>
    /\ loss = 0
    /\ steps = <<>>
    /\ ret = <<>>

\* the for statement takes the next i and the body slices the batch
ForNext ==
    /\ pc = "for"
    /\ RangeHasNext(i, Len(x), batch)
    /\ x_batch' = Slice(x, i, i + batch)
    /\ y_batch' = Slice(y, i, i + batch)
    /\ pc' = "forward"
    /\ UNCHANGED <<opvars, x, y, batch, heap, w1, w2, i, loss, steps, ret>>

\* the range is exhausted: return w1, w2
ForEnd ==
    /\ pc = "for"
    /\ ~RangeHasNext(i, Len(x), batch)
    /\ ret' = <<w1, w2>>
    /\ pc' = "returned"
    /\ UNCHANGED <<opvars, x, y, batch, heap, w1, w2, i, x_batch, y_batch, loss, steps>>

\* x_tensor, y_one_hot and the loss built on them and on the current w1, w2
Forward ==
    /\ pc = "forward"
    /\ LET x_tensor == Len(heap) + 1
           y_one_hot == Len(heap) + 2
       IN /\ heap' = heap \o
                <<Leaf([array |-> x_batch]),
                  Leaf([one_hot |-> y_batch]),
                  [op |-> "loss", inputs |-> <<x_tensor, w1, w2, y_one_hot>>,
                   data |-> LossValue(x_batch, y_batch, heap[w1].data, heap[w2].data),
                   grad |-> <<>>]>>
          /\ loss' = Len(heap) + 3
    /\ pc' = "backward"
    /\ UNCHANGED <<opvars, x, y, batch, w1, w2, i, x_batch, y_batch, steps, ret>>

\* loss.backward(): every node the loss is computed from gets the gradient
\* of the loss with respect to it as its grad
Backward ==
    /\ pc = "backward"
    /\ LET node == heap[loss]
           Role(k) == CHOOSE r \in {"x_tensor", "w1", "w2", "y_one_hot"} :
                          node.inputs[CASE r = "x_tensor" -> 1 [] r = "w1" -> 2
                                        [] r = "w2" -> 3 [] r = "y_one_hot" -> 4] = k
       IN heap' = [k \in 1..Len(heap) |->
              IF k = loss THEN [heap[k] EXCEPT !.grad = <<GradValue("loss", node.data)>>]
              ELSE IF k \in {node.inputs[j] : j \in 1..Len(node.inputs)}
              THEN [heap[k] EXCEPT !.grad = <<GradValue(Role(k), node.data)>>]
              ELSE heap[k]]
    /\ pc' = "update_w1"
    /\ UNCHANGED <<opvars, x, y, batch, w1, w2, i, x_batch, y_batch, loss, steps, ret>>

\* the update written into the array of the tensor w1 names
Update_w1_in_place ==
    /\ pc = "update_w1"
    /\ heap[w1].grad # <<>>
    /\ heap' = [heap EXCEPT ![w1].data = Descent(heap[w1].data, heap[w1].grad[1])]
    /\ pc' = "update_w2"
    /\ UNCHANGED <<opvars, x, y, batch, w1, w2, i, x_batch, y_batch, loss, steps, ret>>

\* w1 = ndl.Tensor(w1.numpy() - lr * w1.grad.numpy())
Update_w1 ==
    /\ pc = "update_w1"
    /\ heap[w1].grad # <<>>
    /\ heap' = Append(heap, Leaf(Descent(heap[w1].data, heap[w1].grad[1])))
    /\ w1' = Len(heap) + 1
    /\ pc' = "update_w2"
    /\ UNCHANGED <<opvars, x, y, batch, w2, i, x_batch, y_batch, loss, steps, ret>>

\* w2 = ndl.Tensor(w2.numpy() - lr * w2.grad.numpy()), the end of the body
Update_w2 ==
    /\ pc = "update_w2"
    /\ heap[w2].grad # <<>>
    /\ heap' = Append(heap, Leaf(Descent(heap[w2].data, heap[w2].grad[1])))
    /\ w2' = Len(heap) + 1
    /\ i' = i + batch
    /\ steps' = Append(steps, [x |-> x_batch, y |-> y_batch])
    /\ pc' = "for"
    /\ UNCHANGED <<opvars, x, y, batch, w1, x_batch, y_batch, loss, ret>>

NextEpoch ==
    \/ ForNext
    \/ ForEnd
    \/ Forward
    \/ Backward
    \/ Update_w1
    \/ Update_w2

SpecEpoch == InitEpoch /\ [][NextEpoch]_vars

\* ------------------------------------------------------------ claims
Done(name) == pc = "done" /\ call.op.name = name

\* the gradient call returned n gradients, none raised
Returned(n) == result.raised = "" /\ Len(result.grads) = n

\* the incoming gradient of the call in the state
OutGradData == CallOutGrad(call).cached_data

\* C1: MatMul.gradient returns two gradients whose shapes are exactly the
\* shapes of the two operands, for all operands of rank >= 2 that matmul
\* accepts, batch axes of size 1 and operands of different rank included.
C1_MatMulGradientShapes ==
    Done("MatMul") =>
        /\ Returned(2)
        /\ result.grads[1].shape = call.inputs[1].shape
        /\ result.grads[2].shape = call.inputs[2].shape

\* C2: BroadcastTo.gradient reduces exactly the new leading axes of the target
\* shape T and the axes where the input shape S has size 1 and T a larger
\* size; the gradient has shape S and each entry is the sum of the incoming
\* gradient over the positions of T that were copies of it.
C2_BroadcastToGradient ==
    Done("BroadcastTo") =>
        LET S == call.inputs[1].shape
            T == call.op.shape
            lead == Len(T) - Len(S)
            dims == BroadcastTo_reduce_dim(T, S, Len(T) - 1, Len(S) - 1)
        IN /\ {dims[k] : k \in 1..Len(dims)} =
                  {a \in 0..(Len(T) - 1) :
                      a < lead \/ (S[a - lead + 1] = 1 /\ T[a + 1] > 1)}
           /\ Returned(1)
           /\ result.grads[1].shape = S
           /\ \A idx \in Indices(S) :
                  result.grads[1].data[idx] =
                      SumOver(OutGradData.data,
                              {j \in Indices(T) : Source(S, j) = idx})

\* broadcasting (3,1) to (3,4) with an incoming gradient of ones gives a
\* gradient of shape (3,1) with every entry 4
C2_Witness ==
    /\ Done("BroadcastTo")
    /\ call.inputs[1].shape = <<3, 1>>
    /\ call.op.shape = <<3, 4>>
    /\ call.og = "ones"
    /\ result.grads = <<NDArray(<<3, 1>>, [idx \in Indices(<<3, 1>>) |-> 4])>>

\* the axes the forward pass of a Summation call reduced
ReducedAxes(axes, r) ==
    IF axes.kind = "None" THEN 0..(r - 1)
    ELSE {PyIndex(axes.ax[k], r) : k \in 1..Len(axes.ax)}

\* C3: Summation.gradient returns a gradient of exactly the input's shape,
\* each entry equal to the incoming gradient's entry at the position the
\* entry was summed into, for every axes argument the forward pass accepts
\* (None, an int, a tuple of distinct axes, negative indices, the empty tuple).
C3_SummationGradient ==
    Done("Summation") =>
        LET S == call.inputs[1].shape
            red == ReducedAxes(call.op.axes, Len(S))
            keep == SelectSeq([k \in 1..Len(S) |-> k - 1], LAMBDA a : a \notin red)
        IN /\ Returned(1)
           /\ result.grads[1].shape = S
           /\ \A idx \in Indices(S) :
                  result.grads[1].data[idx] =
                      OutGradData.data[[k \in 1..Len(keep) |-> idx[keep[k] + 1]]]

\* C4: the gradients of EWiseAdd, EWiseMul and EWiseDiv are two, and the
\* i-th has the shape of the i-th operand, for equal operand shapes and for
\* unequal shapes that broadcast together.
C4_EWiseGradientShapes ==
    (Done("EWiseAdd") \/ Done("EWiseMul") \/ Done("EWiseDiv")) =>
        /\ Returned(2)
        /\ result.grads[1].shape = call.inputs[1].shape
        /\ result.grads[2].shape = call.inputs[2].shape

\* C5: PowerScalar.gradient returns out_grad * n * x^(n-1) for its operand
\* and raises nothing.
C5_PowerScalarGradient ==
    Done("PowerScalar") =>
        LET operand == call.inputs[1]
            n == call.op.scalar.data[<<>>]
        IN /\ Returned(1)
           /\ result.grads[1].shape = operand.shape
           /\ \A idx \in Indices(operand.shape) :
                  result.grads[1].data[idx] =
                      OutGradData.data[idx] * n * IntPow(operand.data[idx], n - 1)

\* C6: ReLU's forward value is max(x, 0) element-wise and its gradient is the
\* incoming gradient where the operand is > 0 and 0 elsewhere, 0 in
\* particular where the operand is exactly 0.
C6_ReLU ==
    Done("ReLU") =>
        LET operand == call.inputs[1]
        IN /\ result.out.shape = operand.shape
           /\ Returned(1)
           /\ result.grads[1].shape = operand.shape
           /\ \A idx \in Indices(operand.shape) :
                  /\ result.out.data[idx] =
                         (IF operand.data[idx] > 0 THEN operand.data[idx] ELSE 0)
                  /\ result.grads[1].data[idx] =
                         (IF operand.data[idx] > 0 THEN OutGradData.data[idx] ELSE 0)

\* an operand with a negative, a zero and a positive element, the incoming
\* gradient nonzero at the zero element and the gradient 0 there
C6_Witness ==
    /\ Done("ReLU")
    /\ Returned(1)
    /\ LET operand == call.inputs[1]
       IN /\ \E idx \in Indices(operand.shape) : operand.data[idx] < 0
          /\ \E idx \in Indices(operand.shape) : operand.data[idx] > 0
          /\ \E idx \in Indices(operand.shape) :
                 /\ operand.data[idx] = 0
                 /\ OutGradData.data[idx] # 0
                 /\ result.out.data[idx] = 0
                 /\ result.grads[1].data[idx] = 0

\* the two axes a Transpose call names, as non-negative indices
TransposePair(axes, r) ==
    IF axes.kind = "None" THEN <<r - 1, r - 2>>
    ELSE <<PyIndex(axes.ax[1], r), PyIndex(axes.ax[2], r)>>

\* C7: Transpose swaps exactly the two named axes (the last two for None) and
\* leaves the others in place; transposing the result again by the same axes
\* gives the operand back, shape and elements; the gradient has the
\* operand's shape.
C7_Transpose ==
    Done("Transpose") =>
        LET operand == call.inputs[1]
            r == Len(operand.shape)
            ij == TransposePair(call.op.axes, r)
            perm == Transpose_axes(call.op, r)
        IN /\ \A k \in 0..(r - 1) :
                  perm[k + 1] = (IF k = ij[1] THEN ij[2]
                                 ELSE IF k = ij[2] THEN ij[1] ELSE k)
           /\ IsArr(result.out)
           /\ \A k \in 1..r : result.out.shape[k] = operand.shape[perm[k] + 1]
           /\ \A idx \in Indices(operand.shape) :
                  result.out.data[[k \in 1..r |-> idx[perm[k] + 1]]] = operand.data[idx]
           /\ Transpose_compute(call.op, result.out) = operand
           /\ Returned(1)
           /\ result.grads[1].shape = operand.shape

\* a transpose of a rank-3 operand by a pair given with one negative index,
\* which changes the shape
C7_Witness ==
    /\ Done("Transpose")
    /\ Len(call.inputs[1].shape) = 3
    /\ call.op.axes.kind = "tuple"
    /\ call.op.axes.ax = <<0, -1>>
    /\ result.out.shape # call.inputs[1].shape
    /\ Transpose_compute(call.op, result.out) = call.inputs[1]
    /\ Returned(1)

\* C9: every operator reached by repeatedly taking gradients, starting from
\* an operator that has a gradient rule, has a gradient rule itself: no
\* operator application in a gradient expression is of an operator whose
\* gradient raises NotImplementedError.
C9_GradientsDifferentiable ==
    pc = "grad" => HasGradientRule(call)

\* the number of mini-batch steps of an epoch: ceil(num_examples / batch)
NumSteps == (Len(x) + batch - 1) \div batch

\* examples k*batch .. min((k+1)*batch, num_examples) - 1 of s, for step k
\* counted from 0
BatchOf(s, k) ==
    LET lo == k * batch
        hi == IF (k + 1) * batch < Len(s) THEN (k + 1) * batch ELSE Len(s)
    IN [j \in 1..(hi - lo) |-> s[lo + j]]

\* the weights after k steps: each step replaces both by w - lr * w.grad,
\* the gradients being those of the step's loss at the weights before it
RECURSIVE WeightsAfter(_)
WeightsAfter(k) ==
    IF k = 0 THEN <<InitialWeight("w1"), InitialWeight("w2")>>
    ELSE LET w == WeightsAfter(k - 1)
             l == LossValue(BatchOf(x, k - 1), BatchOf(y, k - 1), w[1], w[2])
         IN <<Descent(w[1], GradValue("w1", l)), Descent(w[2], GradValue("w2", l))>>

\* C8: an epoch is ceil(num_examples / batch) steps; step k uses examples
\* k*batch .. min((k+1)*batch, num_examples)-1 of x and the labels at the
\* same indices of y, in order, every example in exactly one step; the
\* weights returned are those after the last step, each step having replaced
\* w1 and w2 by w - lr * w.grad (the tensors passed in when there are no
\* examples).
C8_EpochSteps ==
    (pc \in {"for", "forward", "backward", "update_w1", "update_w2", "returned"}) =>
        /\ Len(steps) <= NumSteps
        /\ \A k \in 1..Len(steps) :
               /\ steps[k].x = BatchOf(x, k - 1)
               /\ steps[k].y = BatchOf(y, k - 1)
        /\ pc = "returned" =>
               /\ Len(steps) = NumSteps
               /\ \A e \in 1..Len(x) :
                      Cardinality({kj \in {<<k, j>> : k \in 1..Len(steps), j \in 1..MaxBatch} :
                                       /\ kj[2] <= Len(steps[kj[1]].x)
                                       /\ steps[kj[1]].x[kj[2]] = x[e]}) = 1
               /\ heap[ret[1]].data = WeightsAfter(NumSteps)[1]
               /\ heap[ret[2]].data = WeightsAfter(NumSteps)[2]
               /\ (Len(x) = 0 => ret = <<1, 2>>)

\* an epoch of 4 examples in batches of 3 has returned after 2 steps, the
\* last one on a single example
C8_Witness ==
    /\ pc = "returned"
    /\ Len(x) = 4
    /\ batch = 3
    /\ Len(steps) = 2
    /\ steps[2].x = <<4>>
    /\ ret = <<11, 12>>

\* the arrays of the tensors passed in are as they were, the current w1 and
\* w2 are leaves, and after a step both were updated with gradients of the
\* same loss, taken at the weights before the step
C10_State ==
    (pc \in {"for", "forward", "backward", "update_w1", "update_w2", "returned"}) =>
        /\ heap[1].data = InitialWeight("w1")
        /\ heap[2].data = InitialWeight("w2")
        /\ heap[w1].op = "" /\ heap[w1].inputs = <<>>
        /\ heap[w2].op = "" /\ heap[w2].inputs = <<>>
        /\ (pc \in {"for", "returned"} /\ Len(steps) > 0) =>
               LET a == heap[w1].data
                   b == heap[w2].data
               IN /\ a.grad = GradValue("w1", b.grad.of)
                  /\ b.grad = GradValue("w2", a.grad.of)
                  /\ a.grad.of.loss_w1 = a.minuend
                  /\ a.grad.of.loss_w2 = b.minuend

\* no step writes into the array of a tensor that exists
C10_Frame ==
    \A k \in 1..Len(heap) : k <= Len(heap') /\ heap'[k].data = heap[k].data

\* C10: nn_epoch leaves the arrays of the w1 and w2 passed in unchanged (each
\* step binds w1 and w2 to new leaf tensors and writes into no existing
\* array), and within a step w2 is updated with the gradient of the same
\* backward pass as w1, the one taken at the weights before the step.
C10_CallerWeightsIntact == [](C10_State) /\ [][C10_Frame]_vars

\* two steps done: the tensors passed in hold a grad and their arrays are as
\* they were, w1 and w2 name tensors made by the second step
C10_Witness ==
    /\ pc = "for"
    /\ Len(steps) = 2
    /\ heap[1].grad # <<>>
    /\ heap[1].data = InitialWeight("w1")
    /\ w1 = 11 /\ w2 = 12
    /\ heap[w2].data.grad.of.loss_w1 = heap[6].data
====
